---- MODULE Spec2Model ----
(***************************************************************************)
(* Model of tun/src/ffi.c: the fixed-name copier strscpy_pad and the       *)
(* tunnel allocator tun_alloc, together with the part of the kernel the    *)
(* allocator talks to (descriptor table, interfaces, routing table).       *)
(***************************************************************************)
EXTENDS Integers, Sequences, FiniteSets, TLC

VARIABLES
    kernel,      \* [open, attached, ifaces, routes]: descriptor table, tun attachments, interfaces, routes
    pc,          \* position of the caller / of tun_alloc
    calls,       \* number of tun_alloc invocations started
    arg_dev,     \* contents of the caller's name buffer when tun_alloc was entered
    dev,         \* the caller's name buffer (char *dev)
    self_ip,     \* const char *self_ip
    peer_ip,     \* const char *peer_ip
    ifr,         \* struct ifreq ifr
    sai,         \* struct sockaddr_in sai
    rt,          \* struct rtentry rt
    fd,          \* int fd
    sock,        \* int sock
    err,         \* int err
    errno,       \* errno of the calling thread
    ret,         \* value returned by tun_alloc
    out,         \* lines printed by this invocation
    ops,         \* kernel calls issued by this invocation, in order
    failed_step, \* the step at which this invocation failed ("none" otherwise)
    failures,    \* [step, errno, ret] of every failed invocation so far
    prev,        \* the invocation before this one: its name argument, failing step, result
    cp           \* state of the strscpy_pad harness

vars == <<kernel, pc, calls, arg_dev, dev, self_ip, peer_ip, ifr, sai, rt, fd, sock,
          err, errno, ret, out, ops, failed_step, failures, prev, cp>>

tunVars == <<kernel, pc, calls, arg_dev, dev, self_ip, peer_ip, ifr, sai, rt, fd, sock,
             err, errno, ret, out, ops, failed_step, failures, prev>>

----------------------------------------------------------------------------
(* Bounds of the model *)

MaxCalls == 2      \* tun_alloc invocations per behaviour
MaxN == 3          \* largest destination capacity given to strscpy_pad
MaxByte == 2       \* byte values 0..MaxByte in the strscpy_pad harness

----------------------------------------------------------------------------
(* Program constants *)

IFNAMSIZ == 16
IFF_TUN == 1
IFF_TAP == 2
IFF_NO_PI == 4096
IFF_UP == 1
IFF_POINTOPOINT == 16
IFF_RUNNING == 64
IFF_NOARP == 128
IFF_MULTICAST == 4096
AF_INET == 2
RTF_UP == 1
RTF_STATIC == 1024
EPERM == 1
EBUSY == 16

Errnos == {EPERM, EBUSY}

----------------------------------------------------------------------------
(* strscpy_pad *)

\* The copy loop had it also stopped at the end of the source, without
\* storing the source's NUL: while (*dst != 0 && *src != 0 && size != 0).
RECURSIVE CopyLoopStopAtSrcEnd(_, _, _, _, _)
CopyLoopStopAtSrcEnd(m, s, i, size, w) ==
    IF m[i] /= 0 /\ s[i] /= 0 /\ size /= 0
    THEN CopyLoopStopAtSrcEnd([m EXCEPT ![i] = s[i]], s, i + 1, size - 1, w \cup {i})
    ELSE [mem |-> m, size |-> size, writes |-> w]

\* The copy loop had it tested the source: while (*src != 0 && size != 0).
RECURSIVE CopyLoopTestsSrc(_, _, _, _, _)
CopyLoopTestsSrc(m, s, i, size, w) ==
    IF s[i] /= 0 /\ size /= 0
    THEN CopyLoopTestsSrc([m EXCEPT ![i] = s[i]], s, i + 1, size - 1, w \cup {i})
    ELSE [mem |-> m, size |-> size, writes |-> w]

\* First loop of strscpy_pad: while (*dst != 0 && size != 0) { *dst = *src; ... }.
\* m is the memory at dst, s the memory at src, i the offset both pointers have
\* advanced by, w the set of offsets written so far.
RECURSIVE CopyLoop(_, _, _, _, _)
CopyLoop(m, s, i, size, w) ==
    IF m[i] /= 0 /\ size /= 0
    THEN CopyLoop([m EXCEPT ![i] = s[i]], s, i + 1, size - 1, w \cup {i})
    ELSE [mem |-> m, size |-> size, writes |-> w]

\* Second loop of strscpy_pad: while (size != 0) { dst = 0; dst++; size--; }.
\* It assigns the pointer, not the byte it points to: memory is not touched.
RECURSIVE PadLoop(_, _)
PadLoop(m, size) ==
    IF size /= 0 THEN PadLoop(m, size - 1) ELSE m

\* strscpy_pad(dst, src, size): the memory at dst afterwards, the value
\* returned, and the offsets written.
StrscpyPad(m, s, size) ==
    LET l == CopyLoop(m, s, 0, size, {})
        written == size - l.size
    IN [mem |-> PadLoop(l.mem, l.size), ret |-> written, writes |-> l.writes]

----------------------------------------------------------------------------
(* C strings, addresses and flag words *)

\* A NUL-padded IFNAMSIZ-byte buffer holding the characters of the sequence t.
Str(t) == [i \in 0..(IFNAMSIZ - 1) |-> IF i < Len(t) THEN t[i + 1] ELSE 0]

\* strlen: offset of the first NUL byte of buffer b.
StrLen(b) == CHOOSE i \in DOMAIN b : b[i] = 0 /\ \A j \in DOMAIN b : j < i => b[j] /= 0

\* The copy had gone the other way, leaving d as it was.
StrCpyKeep(d, s) == d

\* strcpy(d, s): the bytes of s up to and including its NUL overwrite d; the
\* bytes of d after that NUL are left alone.
StrCpy(d, s) == [i \in DOMAIN d |-> IF i <= StrLen(s) THEN s[i] ELSE d[i]]

\* a | b on non-negative integers.
RECURSIVE BitOr(_, _)
BitOr(a, b) ==
    IF a = 0 THEN b
    ELSE IF b = 0 THEN a
    ELSE (IF a % 2 = 1 \/ b % 2 = 1 THEN 1 ELSE 0) + 2 * BitOr(a \div 2, b \div 2)

\* (flags & bit) != 0 for a single-bit mask.
HasBit(flags, bit) == (flags \div bit) % 2 = 1

\* A 32-bit address is held as its four bytes in network order.
Bytes4(hi, n) == <<hi, (n \div 65536) % 256, (n \div 256) % 256, n % 256>>

NoAddr == <<0, 0, 0, 0>>

INADDR_NONE == <<255, 255, 255, 255>>

\* inet_addr(text): text is the sequence of the numbers between the dots
\* (a.b.c.d, a.b.c with a 16-bit c, a.b with a 24-bit b, or one 32-bit
\* number); anything else gives INADDR_NONE.
InetAddr(t) ==
    LET ok(i, lim) == t[i] \in 0..lim
    IN  IF Len(t) = 4 /\ ok(1, 255) /\ ok(2, 255) /\ ok(3, 255) /\ ok(4, 255)
        THEN <<t[1], t[2], t[3], t[4]>>
        ELSE IF Len(t) = 3 /\ ok(1, 255) /\ ok(2, 255) /\ ok(3, 65535)
        THEN Bytes4(t[1], t[2] * 65536 + t[3])
        ELSE IF Len(t) = 2 /\ ok(1, 255) /\ ok(2, 16777215)
        THEN Bytes4(t[1], t[2])
        ELSE IF Len(t) = 1 /\ t[1] >= 0
        THEN Bytes4(t[1] \div 16777216, t[1] % 16777216)
        ELSE INADDR_NONE

\* memset(&ifr, 0, sizeof(ifr)).  ifr_ifru is a union: ifr_flags is its first
\* 16-bit word, and ifr_addr / ifr_dstaddr lay a sockaddr_in over the same
\* bytes (sin_family on that word, then sin_port, then sin_addr).
ZeroIfr == [ifr_name |-> Str(<<>>), w0 |-> 0, sin_port |-> 0, s_addr |-> NoAddr]

\* memset(&sai, 0, sizeof(struct sockaddr)).
ZeroSai == [sin_family |-> 0, sin_port |-> 0, s_addr |-> NoAddr]

\* memset(&rt, 0, sizeof(struct rtentry)): rt_other stands for every field
\* tun_alloc never assigns.
ZeroRt == [dst_family |-> 0, dst_addr |-> NoAddr, mask_family |-> 0, mask_addr |-> NoAddr,
           rt_flags |-> 0, rt_metric |-> 0, rt_dev |-> Str(<<>>), rt_other |-> 0]

\* memcpy(&ifr.ifr_addr, &sai, sizeof(struct sockaddr)), and the same for
\* ifr.ifr_dstaddr: both are the union's bytes.
MemcpySai(r, a) == [r EXCEPT !.w0 = a.sin_family, !.sin_port = a.sin_port, !.s_addr = a.s_addr]

----------------------------------------------------------------------------
(* The kernel as tun_alloc sees it *)

\* The descriptor open() or socket() hands out: the lowest one not in use
\* (0, 1 and 2 are the standard streams).
LowestFree(open) ==
    CHOOSE n \in 3..(3 + Cardinality(open)) :
        n \notin open /\ \A m \in 3..(n - 1) : m \in open

\* The name the kernel gives an interface requested without one: "tun<k>" for
\* the lowest k not in use.
TunName(k) == Str(<<116, 117, 110, 48 + k>>)

AssignedName(ifaces) ==
    TunName(CHOOSE k \in 0..Cardinality(DOMAIN ifaces) :
                TunName(k) \notin DOMAIN ifaces
                /\ \A j \in 0..(k - 1) : TunName(j) \in DOMAIN ifaces)

\* The bytes of an ifreq name field as a NUL-padded name.
NameOf(b) == [i \in 0..(IFNAMSIZ - 1) |-> IF i < StrLen(b) THEN b[i] ELSE 0]

\* A new point-to-point interface, down and without addresses; mode keeps the
\* flags of the request that created it.
NewIface(mode) ==
    [addr |-> NoAddr, dstaddr |-> NoAddr,
     flags |-> IFF_POINTOPOINT + IFF_NOARP + IFF_MULTICAST, mode |-> mode]

\* open("/dev/net/tun", O_RDWR) and socket(AF_INET, SOCK_DGRAM, 0).
KOpen(k) == [k EXCEPT !.open = @ \cup {LowestFree(@)}]

\* The name ioctl(fd, TUNSETIFF, &r) attaches h to.
KIffName(k, r) ==
    IF r.ifr_name[0] = 0 THEN AssignedName(k.ifaces) ELSE NameOf(r.ifr_name)

\* TUNSETIFF succeeds only for a name no interface holds yet.
KIffFree(k, r) == r.ifr_name[0] = 0 \/ NameOf(r.ifr_name) \notin DOMAIN k.ifaces

\* The errors a refused TUNSETIFF can report.
KIffErrnos(k, r) == IF KIffFree(k, r) THEN Errnos ELSE {EBUSY}

KTunSetIff(k, h, r) ==
    LET n == KIffName(k, r)
    IN [k EXCEPT !.ifaces = (n :> NewIface(r.w0)) @@ @,
                 !.attached = (h :> n) @@ @]

\* The configuration requests name an interface; they succeed only on one
\* that exists, and the address requests only for an AF_INET address.
KHasIface(k, r) == NameOf(r.ifr_name) \in DOMAIN k.ifaces

KSetAddr(k, r) == [k EXCEPT !.ifaces[NameOf(r.ifr_name)].addr = r.s_addr]

KSetDstAddr(k, r) == [k EXCEPT !.ifaces[NameOf(r.ifr_name)].dstaddr = r.s_addr]

KGetFlags(k, r) == k.ifaces[NameOf(r.ifr_name)].flags

KSetFlags(k, r) == [k EXCEPT !.ifaces[NameOf(r.ifr_name)].flags = r.w0]

\* The route the kernel stores for an rtentry; name is the string rt_dev
\* points to.
RouteOf(r, name) ==
    [dst |-> r.dst_addr, genmask |-> r.mask_addr, dev |-> NameOf(name),
     flags |-> r.rt_flags, metric |-> r.rt_metric]

KAddRoute(k, r, name) == [k EXCEPT !.routes = @ \cup {RouteOf(r, name)}]

\* close(h).  Closing the descriptor a tunnel interface is attached to
\* removes the interface and the routes through it.
KClose(k, h) ==
    IF h \in DOMAIN k.attached
    THEN LET n == k.attached[h]
         IN [open |-> k.open \ {h},
             attached |-> [g \in DOMAIN k.attached \ {h} |-> k.attached[g]],
             ifaces |-> [m \in DOMAIN k.ifaces \ {n} |-> k.ifaces[m]],
             routes |-> {x \in k.routes : x.dev /= n}]
    ELSE [k EXCEPT !.open = @ \ {h}]

----------------------------------------------------------------------------
(* tun_alloc *)

\* Inputs of the calls: the caller's name buffer (empty, or "tun7") and the
\* address texts ("10.0.0.1", "10.0.0.2", and "10.0.0.256", which does not parse).
DevNames == {Str(<<>>), Str(<<116, 117, 110, 55>>)}

IpTexts == {<<10, 0, 0, 1>>, <<10, 0, 0, 2>>, <<10, 0, 0, 256>>}

NoArg == [none |-> TRUE]

\* One kernel call in the order it was issued: open, socket, close, or the
\* request code of an ioctl; the descriptor it was issued on (or returned);
\* the request structure as the kernel received it; whether it succeeded.
Op(o, h, a, ok) == [op |-> o, h |-> h, arg |-> a, ok |-> ok]

\* printf("<msg>: %s\n", strerror(errno)).
Line(msg, e) == [msg |-> msg, errno |-> e]

\* return r, out of the step named step ("none": the successful return).
Return(step, r) ==
    /\ ret' = r
    /\ pc' = "returned"
    /\ failed_step' = step
    /\ failures' = IF step = "none" THEN failures
                   ELSE failures \cup {[step |-> step, errno |-> errno', ret |-> r]}

\* No invocation came before the first.
NoPrev == [called |-> FALSE, dev |-> Str(<<>>), step |-> "none", ret |-> 0]

\* The caller invokes tun_alloc(dev, self_ip, peer_ip).  The locals start
\* unassigned; none is read before the code assigns it.
Call ==
    /\ pc \in {"idle", "returned"}
    /\ calls < MaxCalls
    /\ \E d \in DevNames, s \in IpTexts, p \in IpTexts :
          /\ arg_dev' = d
          /\ dev' = d
          /\ self_ip' = s
          /\ peer_ip' = p
    /\ calls' = calls + 1
    /\ pc' = "open_device"
    /\ ifr' = ZeroIfr /\ sai' = ZeroSai /\ rt' = ZeroRt
    /\ fd' = -1 /\ sock' = -1 /\ err' = 0 /\ ret' = 0
    /\ out' = <<>> /\ ops' = <<>> /\ failed_step' = "none"
    /\ prev' = IF pc = "returned"
               THEN [called |-> TRUE, dev |-> arg_dev, step |-> failed_step, ret |-> ret]
               ELSE NoPrev
    /\ UNCHANGED <<kernel, errno, failures, cp>>

\* fd = open("/dev/net/tun", O_RDWR) succeeded.
OpenDeviceOk ==
    /\ fd' = LowestFree(kernel.open)
    /\ kernel' = KOpen(kernel)
    /\ ops' = Append(ops, Op("open", fd', NoArg, TRUE))
    /\ pc' = "request_interface"
    /\ UNCHANGED <<errno, ret, out, failed_step, failures>>

\* open failed, and the failure path had closed the handle it never got.
OpenDeviceFailCloses ==
    \E e \in Errnos :
        /\ errno' = e
        /\ fd' = -1
        /\ ops' = ops \o <<Op("open", -1, NoArg, FALSE), Op("close", -1, NoArg, FALSE)>>
        /\ Return("open_device", -1)
        /\ UNCHANGED <<kernel, out>>

\* open failed: return -1.
OpenDeviceFail ==
    \E e \in Errnos :
        /\ errno' = e
        /\ fd' = -1
        /\ ops' = Append(ops, Op("open", -1, NoArg, FALSE))
        /\ Return("open_device", -1)
        /\ UNCHANGED <<kernel, out>>

OpenDevice ==
    /\ pc = "open_device"
    /\ (OpenDeviceOk \/ OpenDeviceFail)
    /\ UNCHANGED <<calls, arg_dev, dev, self_ip, peer_ip, ifr, sai, rt, sock, err, prev, cp>>

\* The memory strscpy_pad is given at ifr.ifr_name: the name field and the
\* byte after it, the low byte of ifr_flags.
IffMem(r) == [i \in 0..IFNAMSIZ |-> IF i < IFNAMSIZ THEN r.ifr_name[i] ELSE r.w0 % 256]

\* Step 2 had it asked for IFF_TUN | IFF_NO_PI.
IffRequestNoPi(d) ==
    LET r == [ZeroIfr EXCEPT !.w0 = BitOr(IFF_TUN, IFF_NO_PI)]
        c == StrscpyPad(IffMem(r), d, IFNAMSIZ)
    IN  IF d[0] /= 0
        THEN [r EXCEPT !.ifr_name = [i \in 0..(IFNAMSIZ - 1) |-> c.mem[i]]]
        ELSE r

\* The interface request of step 2: memset, ifr_flags = IFF_TUN, and, for a
\* non-empty dev, strscpy_pad(ifr.ifr_name, dev, IFNAMSIZ).  The memory at
\* ifr.ifr_name is the name field followed by the low byte of ifr_flags.
IffRequest(d) ==
    LET r == [ZeroIfr EXCEPT !.w0 = IFF_TUN]
        c == StrscpyPad(IffMem(r), d, IFNAMSIZ)
    IN  IF d[0] /= 0
        THEN [r EXCEPT !.ifr_name = [i \in 0..(IFNAMSIZ - 1) |-> c.mem[i]]]
        ELSE r

\* ioctl(fd, TUNSETIFF, &ifr) succeeded; strcpy(dev, ifr.ifr_name).
RequestInterfaceOk ==
    LET r == IffRequest(dev)
    IN  /\ KIffFree(kernel, r)
        /\ kernel' = KTunSetIff(kernel, fd, r)
        /\ ifr' = [r EXCEPT !.ifr_name = KIffName(kernel, r)]
        /\ err' = 0
        /\ dev' = StrCpy(dev, ifr'.ifr_name)
        /\ ops' = Append(ops, Op("TUNSETIFF", fd, r, TRUE))
        /\ pc' = "open_control_channel"
        /\ UNCHANGED <<errno, ret, out, failed_step, failures>>

\* TUNSETIFF failed, and the name had been copied back before the test.
RequestInterfaceFailCaptures ==
    LET r == IffRequest(dev)
    IN  \E e \in KIffErrnos(kernel, r) :
            /\ errno' = e
            /\ err' = -1
            /\ ifr' = r
            /\ dev' = StrCpy(dev, r.ifr_name)
            /\ out' = Append(out, Line("ioctl failed", e))
            /\ kernel' = KClose(kernel, fd)
            /\ ops' = ops \o <<Op("TUNSETIFF", fd, r, FALSE), Op("close", fd, NoArg, TRUE)>>
            /\ Return("request_interface", err')

\* TUNSETIFF failed: print, close(fd), return err.
RequestInterfaceFail ==
    LET r == IffRequest(dev)
    IN  \E e \in KIffErrnos(kernel, r) :
            /\ errno' = e
            /\ err' = -1
            /\ ifr' = r
            /\ out' = Append(out, Line("ioctl failed", e))
            /\ kernel' = KClose(kernel, fd)
            /\ ops' = ops \o <<Op("TUNSETIFF", fd, r, FALSE), Op("close", fd, NoArg, TRUE)>>
            /\ Return("request_interface", err')
            /\ UNCHANGED dev

RequestInterface ==
    /\ pc = "request_interface"
    /\ (RequestInterfaceOk \/ RequestInterfaceFail)
    /\ UNCHANGED <<calls, arg_dev, self_ip, peer_ip, sai, rt, fd, sock, prev, cp>>

\* sock = socket(AF_INET, SOCK_DGRAM, 0) succeeded.
OpenControlChannelOk ==
    /\ sock' = LowestFree(kernel.open)
    /\ kernel' = KOpen(kernel)
    /\ ops' = Append(ops, Op("socket", sock', NoArg, TRUE))
    /\ pc' = "set_local_address"
    /\ UNCHANGED <<errno, ret, out, failed_step, failures>>

\* socket failed, and the failure path had closed both descriptors as the
\* later ones do.
OpenControlChannelFailClosesSock ==
    \E e \in Errnos :
        /\ errno' = e
        /\ sock' = -1
        /\ out' = Append(out, Line("opening socket failed", e))
        /\ kernel' = KClose(kernel, fd)
        /\ ops' = ops \o <<Op("socket", -1, NoArg, FALSE), Op("close", fd, NoArg, TRUE),
                           Op("close", sock', NoArg, FALSE)>>
        /\ Return("open_control_channel", sock')

\* socket failed: print, close(fd), return sock.
OpenControlChannelFail ==
    \E e \in Errnos :
        /\ errno' = e
        /\ sock' = -1
        /\ out' = Append(out, Line("opening socket failed", e))
        /\ kernel' = KClose(kernel, fd)
        /\ ops' = ops \o <<Op("socket", -1, NoArg, FALSE), Op("close", fd, NoArg, TRUE)>>
        /\ Return("open_control_channel", sock')

OpenControlChannel ==
    /\ pc = "open_control_channel"
    /\ (OpenControlChannelOk \/ OpenControlChannelFail)
    /\ UNCHANGED <<calls, arg_dev, dev, self_ip, peer_ip, ifr, sai, rt, fd, err, prev, cp>>

\* Step 5 had it replaced an address that does not parse by 0.0.0.0.
LocalSaiAnyOnError ==
    [ZeroSai EXCEPT !.sin_family = AF_INET, !.sin_port = 0,
                    !.s_addr = IF InetAddr(self_ip) = INADDR_NONE THEN NoAddr
                               ELSE InetAddr(self_ip)]

\* The request of step 5: sai is zeroed and filled with inet_addr(self_ip),
\* then copied over ifr.ifr_addr.
LocalSai == [ZeroSai EXCEPT !.sin_family = AF_INET, !.sin_port = 0,
                            !.s_addr = InetAddr(self_ip)]

\* ioctl(sock, SIOCSIFADDR, &ifr) succeeded.
SetLocalAddressOk ==
    LET r == MemcpySai(ifr, LocalSai)
    IN  /\ KHasIface(kernel, r) /\ r.w0 = AF_INET
        /\ kernel' = KSetAddr(kernel, r)
        /\ ifr' = r
        /\ err' = 0
        /\ ops' = Append(ops, Op("SIOCSIFADDR", sock, r, TRUE))
        /\ pc' = "set_peer_address"
        /\ UNCHANGED <<errno, ret, out, failed_step, failures>>

\* SIOCSIFADDR failed, and the failure path had returned -errno.
SetLocalAddressFailErrno ==
    LET r == MemcpySai(ifr, LocalSai)
    IN  \E e \in Errnos :
            /\ errno' = e
            /\ err' = -e
            /\ ifr' = r
            /\ out' = Append(out, Line("setting ip address failed", e))
            /\ kernel' = KClose(KClose(kernel, fd), sock)
            /\ ops' = ops \o <<Op("SIOCSIFADDR", sock, r, FALSE),
                               Op("close", fd, NoArg, TRUE), Op("close", sock, NoArg, TRUE)>>
            /\ Return("set_local_address", err')

\* SIOCSIFADDR failed: print, close(fd), close(sock), return err.
SetLocalAddressFail ==
    LET r == MemcpySai(ifr, LocalSai)
    IN  \E e \in Errnos :
            /\ errno' = e
            /\ err' = -1
            /\ ifr' = r
            /\ out' = Append(out, Line("setting ip address failed", e))
            /\ kernel' = KClose(KClose(kernel, fd), sock)
            /\ ops' = ops \o <<Op("SIOCSIFADDR", sock, r, FALSE),
                               Op("close", fd, NoArg, TRUE), Op("close", sock, NoArg, TRUE)>>
            /\ Return("set_local_address", err')

SetLocalAddress ==
    /\ pc = "set_local_address"
    /\ sai' = LocalSai
    /\ (SetLocalAddressOk \/ SetLocalAddressFail)
    /\ UNCHANGED <<calls, arg_dev, dev, self_ip, peer_ip, rt, fd, sock, prev, cp>>

\* Step 6 had it parsed self_ip again.
PeerSaiFromSelf == [sai EXCEPT !.s_addr = InetAddr(self_ip)]

\* The request of step 6: sai.sin_addr.s_addr = inet_addr(peer_ip), copied
\* over ifr.ifr_dstaddr.
PeerSai == [sai EXCEPT !.s_addr = InetAddr(peer_ip)]

\* ioctl(sock, SIOCSIFDSTADDR, &ifr) succeeded.
SetPeerAddressOk ==
    LET r == MemcpySai(ifr, PeerSai)
    IN  /\ KHasIface(kernel, r) /\ r.w0 = AF_INET
        /\ kernel' = KSetDstAddr(kernel, r)
        /\ ifr' = r
        /\ err' = 0
        /\ ops' = Append(ops, Op("SIOCSIFDSTADDR", sock, r, TRUE))
        /\ pc' = "read_flags"
        /\ UNCHANGED <<errno, ret, out, failed_step, failures>>

\* SIOCSIFDSTADDR failed, and the failure path had left the socket open.
SetPeerAddressFailLeak ==
    LET r == MemcpySai(ifr, PeerSai)
    IN  \E e \in Errnos :
            /\ errno' = e
            /\ err' = -1
            /\ ifr' = r
            /\ out' = Append(out, Line("setting peer address failed", e))
            /\ kernel' = KClose(kernel, fd)
            /\ ops' = ops \o <<Op("SIOCSIFDSTADDR", sock, r, FALSE),
                               Op("close", fd, NoArg, TRUE)>>
            /\ Return("set_peer_address", err')

\* SIOCSIFDSTADDR failed: print, close(fd), close(sock), return err.
SetPeerAddressFail ==
    LET r == MemcpySai(ifr, PeerSai)
    IN  \E e \in Errnos :
            /\ errno' = e
            /\ err' = -1
            /\ ifr' = r
            /\ out' = Append(out, Line("setting peer address failed", e))
            /\ kernel' = KClose(KClose(kernel, fd), sock)
            /\ ops' = ops \o <<Op("SIOCSIFDSTADDR", sock, r, FALSE),
                               Op("close", fd, NoArg, TRUE), Op("close", sock, NoArg, TRUE)>>
            /\ Return("set_peer_address", err')

SetPeerAddress ==
    /\ pc = "set_peer_address"
    /\ sai' = PeerSai
    /\ (SetPeerAddressOk \/ SetPeerAddressFail)
    /\ UNCHANGED <<calls, arg_dev, dev, self_ip, peer_ip, rt, fd, sock, prev, cp>>

\* ioctl(sock, SIOCGIFFLAGS, &ifr) succeeded: the kernel stores the
\* interface's flags in ifr.ifr_flags.
ReadFlagsOk ==
    /\ KHasIface(kernel, ifr)
    /\ ifr' = [ifr EXCEPT !.w0 = KGetFlags(kernel, ifr)]
    /\ err' = 0
    /\ ops' = Append(ops, Op("SIOCGIFFLAGS", sock, ifr, TRUE))
    /\ pc' = "activate"
    /\ UNCHANGED <<kernel, errno, ret, out, failed_step, failures>>

\* SIOCGIFFLAGS failed, and the failure path had printed without returning.
ReadFlagsFailNoReturn ==
    \E e \in Errnos :
        /\ errno' = e
        /\ err' = -1
        /\ out' = Append(out, Line("getting flags failed", e))
        /\ ops' = Append(ops, Op("SIOCGIFFLAGS", sock, ifr, FALSE))
        /\ pc' = "activate"
        /\ UNCHANGED <<kernel, ifr, ret, failed_step, failures>>

\* SIOCGIFFLAGS failed, and the code had asked again instead of giving up.
ReadFlagsFailRetry ==
    \E e \in Errnos :
        /\ errno' = e
        /\ err' = -1
        /\ UNCHANGED <<kernel, ifr, pc, ret, out, ops, failed_step, failures>>

\* SIOCGIFFLAGS failed: print, close(fd), close(sock), return err.
ReadFlagsFail ==
    \E e \in Errnos :
        /\ errno' = e
        /\ err' = -1
        /\ out' = Append(out, Line("getting flags failed", e))
        /\ kernel' = KClose(KClose(kernel, fd), sock)
        /\ ops' = ops \o <<Op("SIOCGIFFLAGS", sock, ifr, FALSE),
                           Op("close", fd, NoArg, TRUE), Op("close", sock, NoArg, TRUE)>>
        /\ Return("read_flags", err')
        /\ UNCHANGED ifr

ReadFlags ==
    /\ pc = "read_flags"
    /\ (ReadFlagsOk \/ ReadFlagsFail)
    /\ UNCHANGED <<calls, arg_dev, dev, self_ip, peer_ip, sai, rt, fd, sock, prev, cp>>

\* The request of step 8: ifr.ifr_flags |= IFF_UP | IFF_RUNNING.
UpFlags(r) == [r EXCEPT !.w0 = BitOr(@, BitOr(IFF_UP, IFF_RUNNING))]

\* ioctl(sock, SIOCSIFFLAGS, &ifr) succeeded.
ActivateOk ==
    LET r == UpFlags(ifr)
    IN  /\ KHasIface(kernel, r)
        /\ kernel' = KSetFlags(kernel, r)
        /\ err' = 0
        /\ ops' = Append(ops, Op("SIOCSIFFLAGS", sock, r, TRUE))
        /\ pc' = "add_route"
        /\ UNCHANGED <<errno, ret, out, failed_step, failures>>

\* SIOCSIFFLAGS failed, and the failure path had printed the line of step 7.
ActivateFailWrongLine ==
    LET r == UpFlags(ifr)
    IN  \E e \in Errnos :
            /\ errno' = e
            /\ err' = -1
            /\ out' = Append(out, Line("getting flags failed", e))
            /\ kernel' = KClose(KClose(kernel, fd), sock)
            /\ ops' = ops \o <<Op("SIOCSIFFLAGS", sock, r, FALSE),
                               Op("close", fd, NoArg, TRUE), Op("close", sock, NoArg, TRUE)>>
            /\ Return("activate", err')

\* SIOCSIFFLAGS failed: print, close(fd), close(sock), return err.
ActivateFail ==
    LET r == UpFlags(ifr)
    IN  \E e \in Errnos :
            /\ errno' = e
            /\ err' = -1
            /\ out' = Append(out, Line("setting flags failed", e))
            /\ kernel' = KClose(KClose(kernel, fd), sock)
            /\ ops' = ops \o <<Op("SIOCSIFFLAGS", sock, r, FALSE),
                               Op("close", fd, NoArg, TRUE), Op("close", sock, NoArg, TRUE)>>
            /\ Return("activate", err')

Activate ==
    /\ pc = "activate"
    /\ ifr' = UpFlags(ifr)
    /\ (ActivateOk \/ ActivateFail)
    /\ UNCHANGED <<calls, arg_dev, dev, self_ip, peer_ip, sai, rt, fd, sock, prev, cp>>

\* The route entry had it left out RTF_STATIC.
RouteEntryUpOnly ==
    [ZeroRt EXCEPT !.dst_family = AF_INET, !.dst_addr = InetAddr(peer_ip),
                   !.mask_family = AF_INET,
                   !.mask_addr = InetAddr(<<255, 255, 255, 255>>),
                   !.rt_flags = RTF_UP, !.rt_metric = 0,
                   !.rt_dev = dev]

\* The route entry of step 9.  rt_dev is the pointer dev: the kernel reads the
\* name from the caller's buffer.
RouteEntry ==
    [ZeroRt EXCEPT !.dst_family = AF_INET, !.dst_addr = InetAddr(peer_ip),
                   !.mask_family = AF_INET,
                   !.mask_addr = InetAddr(<<255, 255, 255, 255>>),
                   !.rt_flags = BitOr(RTF_UP, RTF_STATIC), !.rt_metric = 0,
                   !.rt_dev = dev]

\* ioctl(sock, SIOCADDRT, &rt) succeeded.
AddRouteOk ==
    /\ RouteEntry.rt_dev \in DOMAIN kernel.ifaces
    /\ kernel' = KAddRoute(kernel, RouteEntry, RouteEntry.rt_dev)
    /\ err' = 0
    /\ ops' = Append(ops, Op("SIOCADDRT", sock, RouteEntry, TRUE))
    /\ pc' = "finalize"
    /\ UNCHANGED <<errno, ret, out, failed_step, failures>>

\* SIOCADDRT failed, and the failure path had closed fd before sock, as the
\* other failure paths do.
AddRouteFailFdFirst ==
    \E e \in Errnos :
        /\ errno' = e
        /\ err' = -1
        /\ out' = Append(out, Line("adding route failed", e))
        /\ kernel' = KClose(KClose(kernel, fd), sock)
        /\ ops' = ops \o <<Op("SIOCADDRT", sock, RouteEntry, FALSE),
                           Op("close", fd, NoArg, TRUE), Op("close", sock, NoArg, TRUE)>>
        /\ Return("add_route", err')

\* SIOCADDRT failed, and the failure path had taken the interface down again
\* before closing.
AddRouteFailRollsBack ==
    \E e \in Errnos :
        LET down == [ifr EXCEPT !.w0 = @ - IFF_UP]
        IN  /\ errno' = e
            /\ err' = -1
            /\ out' = Append(out, Line("adding route failed", e))
            /\ kernel' = KClose(KClose(KSetFlags(kernel, down), sock), fd)
            /\ ops' = ops \o <<Op("SIOCADDRT", sock, RouteEntry, FALSE),
                               Op("SIOCSIFFLAGS", sock, down, TRUE),
                               Op("close", sock, NoArg, TRUE), Op("close", fd, NoArg, TRUE)>>
            /\ Return("add_route", err')

\* SIOCADDRT failed: print, close(sock), close(fd), return err.
AddRouteFail ==
    \E e \in Errnos :
        /\ errno' = e
        /\ err' = -1
        /\ out' = Append(out, Line("adding route failed", e))
        /\ kernel' = KClose(KClose(kernel, sock), fd)
        /\ ops' = ops \o <<Op("SIOCADDRT", sock, RouteEntry, FALSE),
                           Op("close", sock, NoArg, TRUE), Op("close", fd, NoArg, TRUE)>>
        /\ Return("add_route", err')

AddRoute ==
    /\ pc = "add_route"
    /\ rt' = RouteEntry
    /\ (AddRouteOk \/ AddRouteFail)
    /\ UNCHANGED <<calls, arg_dev, dev, self_ip, peer_ip, ifr, sai, fd, sock, prev, cp>>

\* The successful return had left out close(sock).
FinalizeNoClose ==
    /\ pc = "finalize"
    /\ Return("none", fd)
    /\ UNCHANGED <<kernel, ops, calls, arg_dev, dev, self_ip, peer_ip, ifr, sai, rt, fd,
                   sock, err, errno, out, prev, cp>>

\* close(sock); return fd.
Finalize ==
    /\ pc = "finalize"
    /\ kernel' = KClose(kernel, sock)
    /\ ops' = Append(ops, Op("close", sock, NoArg, TRUE))
    /\ Return("none", fd)
    /\ UNCHANGED <<calls, arg_dev, dev, self_ip, peer_ip, ifr, sai, rt, fd, sock, err,
                   errno, out, prev, cp>>

----------------------------------------------------------------------------
(* The allocator's specification *)

NoKernel == [open |-> {}, attached |-> <<>>, ifaces |-> <<>>, routes |-> {}]

CpOff == [pc |-> "off"]

TunIdle ==
    /\ kernel = NoKernel
    /\ pc = "idle"
    /\ calls = 0
    /\ arg_dev = Str(<<>>) /\ dev = Str(<<>>)
    /\ self_ip = <<>> /\ peer_ip = <<>>
    /\ ifr = ZeroIfr /\ sai = ZeroSai /\ rt = ZeroRt
    /\ fd = -1 /\ sock = -1 /\ err = 0 /\ errno = 0 /\ ret = 0
    /\ out = <<>> /\ ops = <<>> /\ failed_step = "none" /\ failures = {}
    /\ prev = NoPrev

Init == TunIdle /\ cp = CpOff

Next ==
    \/ Call
    \/ OpenDevice
    \/ RequestInterface
    \/ OpenControlChannel
    \/ SetLocalAddress
    \/ SetPeerAddress
    \/ ReadFlags
    \/ Activate
    \/ AddRoute
    \/ Finalize

Spec == Init /\ [][Next]_vars

\* A step of tun_alloc: one kernel call and the code up to the next one.
Step ==
    \/ OpenDevice
    \/ RequestInterface
    \/ OpenControlChannel
    \/ SetLocalAddress
    \/ SetPeerAddress
    \/ ReadFlags
    \/ Activate
    \/ AddRoute
    \/ Finalize

\* Every kernel call returns, so a call in progress takes its next step; the
\* caller is free never to call again.
FairSpec == Init /\ [][Next]_vars /\ WF_vars(Step)

----------------------------------------------------------------------------
(* strscpy_pad on its own: every destination and source within the bounds *)

Byte == 0..MaxByte

\* The memory at src: a NUL-terminated string and the bytes that happen to
\* follow it, which the copy loop may read.
SrcMems == {s \in [0..MaxN -> Byte] : \E i \in 0..MaxN : s[i] = 0}

\* A call about to be made: the memory at dst is n bytes of capacity, any
\* contents, and the byte after them.
CopyInput(n, d, s) ==
    [pc |-> "call", n |-> n, dst0 |-> d, dst |-> d, src |-> s, ret |-> 0, writes |-> {}]

InitCopy ==
    /\ TunIdle
    /\ \E n \in 0..MaxN :
           \E d \in [0..n -> Byte], s \in SrcMems : cp = CopyInput(n, d, s)

\* written = strscpy_pad(dst, src, n).
CopyCall ==
    /\ cp.pc = "call"
    /\ LET c == StrscpyPad(cp.dst, cp.src, cp.n)
       IN cp' = [cp EXCEPT !.pc = "done", !.dst = c.mem, !.ret = c.ret,
                           !.writes = c.writes]
    /\ UNCHANGED tunVars

NextCopy == CopyCall

SpecCopy == InitCopy /\ [][NextCopy]_vars

----------------------------------------------------------------------------
(* Claims about strscpy_pad *)

SrcLen == StrLen(cp.src)

Min(a, b) == IF a < b THEN a ELSE b

\* C9: strscpy_pad writes only to destination offsets 0..N-1 (the byte after
\* the capacity keeps its value), and when the source is shorter than N the
\* destination holds a NUL byte within offsets 0..N-1 on return.
C9_WritesInBoundsAndTerminated ==
    cp.pc = "done" =>
        /\ cp.writes \subseteq 0..(cp.n - 1)
        /\ cp.dst[cp.n] = cp.dst0[cp.n]
        /\ (SrcLen < cp.n => \E i \in 0..(cp.n - 1) : cp.dst[i] = 0)

\* A call that copied a non-empty source shorter than the capacity into a
\* destination that held no NUL before.
C9_Witness ==
    /\ cp.pc = "done"
    /\ SrcLen >= 1 /\ SrcLen < cp.n
    /\ \A i \in 0..(cp.n - 1) : cp.dst0[i] /= 0
    /\ cp.writes /= {}

\* C10: after strscpy_pad the first k = min(len(source), N) destination bytes
\* equal the source's, the bytes from k to N-1 are zero, and k is returned.
C10_CopiesPadsReturnsCount ==
    cp.pc = "done" =>
        LET k == Min(SrcLen, cp.n)
        IN  /\ \A i \in 0..(k - 1) : cp.dst[i] = cp.src[i]
            /\ \A i \in k..(cp.n - 1) : cp.dst[i] = 0
            /\ cp.ret = k

----------------------------------------------------------------------------
(* Claims about tun_alloc *)

Returned == pc = "returned"

Succeeded == Returned /\ failed_step = "none"

\* Failed at a step after OPEN_DEVICE.
FailedLater == Returned /\ failed_step \notin {"none", "open_device"}

\* The descriptors this invocation got from a successful open() or socket().
Opened(o) == {ops[i].h : i \in {j \in DOMAIN ops : ops[j].op = o /\ ops[j].ok}}

\* The positions in ops of the close() calls on descriptor h.
Closes(h) == {i \in DOMAIN ops : ops[i].op = "close" /\ ops[i].h = h}

BothHeldSteps == {"set_local_address", "set_peer_address", "read_flags", "activate",
                  "add_route"}

\* C1: when tun_alloc fails at any step after the device was opened, it
\* returns a negative value and no descriptor this invocation opened (device
\* handle, control socket) is still open.
C1_FailureReleasesEveryHandle ==
    FailedLater =>
        /\ ret < 0
        /\ (Opened("open") \cup Opened("socket")) \cap kernel.open = {}

\* A failure with both handles acquired.
C1_Witness ==
    /\ FailedLater
    /\ failed_step = "set_peer_address"
    /\ Opened("open") /= {} /\ Opened("socket") /= {}

\* C2: on success the value returned is the handle OPEN_DEVICE opened, it is
\* non-negative and still open; and on every path the control socket, once
\* opened, is closed when the call returns.
C2_SuccessKeepsDeviceOnly ==
    Returned =>
        /\ Succeeded => /\ Opened("open") = {ret}
                        /\ ret >= 0
                        /\ ret \in kernel.open
        /\ Opened("socket") \cap kernel.open = {}

\* A successful return after the control socket was opened.
C2_Witness == Succeeded /\ Opened("socket") /= {}

\* A text of four numbers 0..255: a valid dotted-decimal IPv4 address.
ValidIp(t) == Len(t) = 4 /\ \A i \in 1..4 : t[i] \in 0..255

\* C3: for valid self /= peer, when tun_alloc succeeds the interface attached
\* to the returned handle is UP and RUNNING, has local address self and
\* destination address peer, and a route to peer with an all-ones mask goes
\* through it.
C3_SuccessConfiguresInterface ==
    (Succeeded /\ ValidIp(self_ip) /\ ValidIp(peer_ip) /\ self_ip /= peer_ip) =>
        /\ ret \in DOMAIN kernel.attached
        /\ LET n == kernel.attached[ret]
               i == kernel.ifaces[n]
           IN  /\ HasBit(i.flags, IFF_UP) /\ HasBit(i.flags, IFF_RUNNING)
               /\ i.addr = self_ip
               /\ i.dstaddr = peer_ip
               /\ \E r \in kernel.routes :
                      r.dst = peer_ip /\ r.genmask = <<255, 255, 255, 255>> /\ r.dev = n

\* A success with 10.0.0.1 and 10.0.0.2.
C3_Witness ==
    Succeeded /\ self_ip = <<10, 0, 0, 1>> /\ peer_ip = <<10, 0, 0, 2>>

\* C4 as claimed: at every failing step with both handles held, the control
\* socket is closed before the device handle.
C4_ReverseOrderEverywhere ==
    (Returned /\ failed_step \in BothHeldSteps) =>
        \A i \in Closes(sock), j \in Closes(fd) : i < j

\* C4 as the code has it: at every failing step with both handles held, both
\* are closed, each once; ADD_ROUTE closes the control socket first, while
\* SET_LOCAL_ADDRESS, SET_PEER_ADDRESS, READ_FLAGS and ACTIVATE close the
\* device handle first.
C4_BothClosedOrderByStep ==
    (Returned /\ failed_step \in BothHeldSteps) =>
        /\ Cardinality(Closes(sock)) = 1 /\ Cardinality(Closes(fd)) = 1
        /\ \A i \in Closes(sock), j \in Closes(fd) :
               IF failed_step = "add_route" THEN i < j ELSE j < i

\* A failure of SET_LOCAL_ADDRESS, released device handle first.
C4_Witness ==
    /\ Returned /\ failed_step = "set_local_address"
    /\ \E i \in Closes(fd), j \in Closes(sock) : i < j

\* The kernel operations of one invocation, in the order of the code.
StepOrder == <<"open", "TUNSETIFF", "socket", "SIOCSIFADDR", "SIOCSIFDSTADDR",
               "SIOCGIFFLAGS", "SIOCSIFFLAGS", "SIOCADDRT">>

NotClose(x) == x.op /= "close"

\* C5: the operations other than close are issued in the fixed order open,
\* TUNSETIFF, socket, SIOCSIFADDR, SIOCSIFDSTADDR, SIOCGIFFLAGS,
\* SIOCSIFFLAGS, SIOCADDRT, each at most once, and after an operation that
\* failed only close operations follow.
C5_FixedOrderFirstFailureAborts ==
    LET cfg == SelectSeq(ops, NotClose)
    IN  /\ Len(cfg) <= Len(StepOrder)
        /\ \A i \in DOMAIN cfg : cfg[i].op = StepOrder[i]
        /\ \A i \in DOMAIN ops :
               ~ops[i].ok => \A j \in DOMAIN ops : j > i => ops[j].op = "close"

\* A failure in the middle of the sequence, followed by the two closes.
C5_Witness ==
    /\ Returned /\ failed_step = "read_flags"
    /\ Len(ops) = 8 /\ ~ops[6].ok /\ ops[7].op = "close" /\ ops[8].op = "close"

\* C6: when OPEN_DEVICE fails the call returns a negative value at once: the
\* failed open is the only kernel call of the invocation (nothing opened,
\* nothing closed, no control request), the kernel's descriptors, interfaces
\* and routes are as they were, and the caller's name buffer is unchanged.
C6_OpenFailureTouchesNothing ==
    [][(pc = "open_device" /\ failed_step' = "open_device") =>
          /\ pc' = "returned"
          /\ ret' < 0
          /\ ops' = <<Op("open", -1, NoArg, FALSE)>>
          /\ kernel' = kernel
          /\ dev' = arg_dev]_vars

\* A failed OPEN_DEVICE of the second invocation, with the first one's
\* interface in place and a non-empty name buffer.
C6_Witness ==
    /\ Returned /\ failed_step = "open_device"
    /\ DOMAIN kernel.ifaces /= {}
    /\ arg_dev[0] /= 0

\* C7 as claimed: a failure returns a negative value which, for the steps
\* after OPEN_DEVICE, differs whenever the OS error code differs, and which
\* for OPEN_DEVICE is one fixed value.
C7_ReturnMirrorsErrno ==
    /\ \A f \in failures : f.ret < 0
    /\ \A f, g \in failures :
           /\ (f.step = g.step /\ f.step /= "open_device" /\ f.errno /= g.errno)
                  => f.ret /= g.ret
           /\ (f.step = "open_device" /\ g.step = "open_device") => f.ret = g.ret

\* C7 as the code has it: every failure, at any step and with any OS error
\* code, returns -1, the value the failing library call returned.
C7_FailureReturnsMinusOne ==
    /\ \A f \in failures : f.ret = -1
    /\ (Returned /\ failed_step /= "none") => (ret = -1 /\ ret < 0)

\* Two failures of the same later step with different OS error codes.
C7_Witness ==
    \E f, g \in failures :
        f.step = "set_local_address" /\ g.step = f.step /\ f.errno /= g.errno

\* The line each failing step prints.
StepLine ==
    [request_interface |-> "ioctl failed",
     open_control_channel |-> "opening socket failed",
     set_local_address |-> "setting ip address failed",
     set_peer_address |-> "setting peer address failed",
     read_flags |-> "getting flags failed",
     activate |-> "setting flags failed",
     add_route |-> "adding route failed"]

\* C8: an invocation that fails after OPEN_DEVICE prints exactly one line, the
\* one of the failing step (the lines of distinct steps differ) with the text
\* of the OS error; an invocation that succeeds prints nothing.
C8_OneLinePerFailure ==
    /\ FailedLater => /\ Len(out) = 1
                      /\ out[1].msg = StepLine[failed_step]
                      /\ out[1].errno = errno
    /\ Succeeded => out = <<>>
    /\ \A a, b \in DOMAIN StepLine : a /= b => StepLine[a] /= StepLine[b]

\* A failure of ACTIVATE, with its line printed.
C8_Witness == FailedLater /\ failed_step = "activate" /\ Len(out) = 1

----------------------------------------------------------------------------
(* Claims about names, requests and termination *)

\* The invocation before this one passed the same non-empty name, succeeded,
\* and the interface it created is still attached to the handle it returned.
SameNameStillActive ==
    /\ prev.called /\ prev.step = "none"
    /\ prev.dev = arg_dev /\ arg_dev[0] /= 0
    /\ prev.ret \in DOMAIN kernel.attached

\* C11: of two invocations in sequence with the same non-empty name, the
\* first successful and its interface still active, the second fails at
\* REQUEST_INTERFACE and returns a negative value: it never gets past step 2.
\* (The claim also names the error, interface exists; leaving that out only
\* weakens the statement.)
C11_SameNameFailsAtStep2 ==
    (SameNameStillActive /\ pc \notin {"open_device", "request_interface"}
                         /\ failed_step /= "open_device") =>
        /\ Returned
        /\ failed_step = "request_interface"
        /\ ret < 0

\* The positions in ops of the requests with code o.
Requests(o) == {i \in DOMAIN ops : ops[i].op = o}

\* TUNSETIFF has succeeded in this invocation.
Attached == \E i \in Requests("TUNSETIFF") : ops[i].ok

IfrRequests == {"SIOCSIFADDR", "SIOCSIFDSTADDR", "SIOCGIFFLAGS", "SIOCSIFFLAGS"}

\* C12: once REQUEST_INTERFACE has succeeded, the caller's name buffer holds
\* the name the kernel returned in the interface request, which is the name
\* of the interface attached to the device handle; every later address and
\* flags request carries that name and so does the route entry's device.  A
\* request for an empty name is never refused for its name.
C12_CapturedNameUsedThroughout ==
    /\ Attached =>
           /\ NameOf(dev) = NameOf(ifr.ifr_name)
           /\ fd \in DOMAIN kernel.attached => kernel.attached[fd] = NameOf(dev)
           /\ \A i \in DOMAIN ops :
                  /\ ops[i].op \in IfrRequests => NameOf(ops[i].arg.ifr_name) = NameOf(dev)
                  /\ ops[i].op = "SIOCADDRT" => NameOf(ops[i].arg.rt_dev) = NameOf(dev)
    /\ (pc = "request_interface" /\ arg_dev[0] = 0) => KIffFree(kernel, IffRequest(dev))

\* A success of the second invocation, called with an empty name: the buffer
\* holds "tun1" and the route was added through it.
C12_Witness ==
    /\ Succeeded /\ arg_dev[0] = 0
    /\ dev = TunName(1)
    /\ Requests("SIOCADDRT") /= {}

\* C13: the interface request is zeroed before strscpy_pad runs, so
\* strscpy_pad stores nothing and returns 0; whatever name is requested, the
\* create/attach request is the same, with an empty name field, and the
\* interface gets a name the kernel assigned.
C13_RequestedNameDiscarded ==
    /\ pc = "request_interface" =>
           LET c == StrscpyPad(IffMem([ZeroIfr EXCEPT !.w0 = IFF_TUN]), dev, IFNAMSIZ)
           IN  c.ret = 0 /\ c.writes = {}
    /\ \A i \in Requests("TUNSETIFF") :
           /\ ops[i].arg = [ZeroIfr EXCEPT !.w0 = IFF_TUN]
           /\ ops[i].ok => \E k \in 0..calls : NameOf(ifr.ifr_name) = TunName(k)

\* A success of an invocation that asked for "tun7" and got "tun0".
C13_Witness ==
    /\ Succeeded
    /\ arg_dev = Str(<<116, 117, 110, 55>>)
    /\ dev = TunName(0)

\* Steps 4 to 9.
UndoSteps == BothHeldSteps \cup {"open_control_channel"}

\* C14: when tun_alloc fails at one of steps 4 to 9 it issues no undo
\* request: what follows the failed call is only close() on its own handles,
\* what precedes it succeeded, each configuration request was issued at most
\* once, and the one flags request it may have issued sets IFF_UP.
C14_NoRollback ==
    (Returned /\ failed_step \in UndoSteps) =>
        /\ \A i, j \in DOMAIN ops :
               (~ops[i].ok /\ j > i) => (ops[j].op = "close" /\ ops[j].h \in {fd, sock})
        /\ \A i, j \in DOMAIN ops :
               (~ops[i].ok /\ j < i) => (ops[j].ok /\ ops[j].op /= "close")
        /\ \A i \in DOMAIN ops :
               /\ ops[i].op \in {"close"} \cup {StepOrder[k] : k \in DOMAIN StepOrder}
               /\ ops[i].op /= "close" => Cardinality(Requests(ops[i].op)) = 1
        /\ \A i \in Requests("SIOCSIFFLAGS") : HasBit(ops[i].arg.w0, IFF_UP)

\* ADD_ROUTE failed after the interface was brought up.
C14_Witness ==
    /\ Returned /\ failed_step = "add_route"
    /\ \E i \in Requests("SIOCSIFFLAGS") : ops[i].ok

\* C15: the route entry given to SIOCADDRT has destination the parsed peer
\* address, an all-ones mask, the captured interface name as device, flags
\* exactly RTF_UP and RTF_STATIC, metric 0 and every other field zero; it is
\* submitted right after SIOCSIFFLAGS succeeded.
C15_RouteEntryFields ==
    \A i \in Requests("SIOCADDRT") :
        LET a == ops[i].arg
        IN  /\ a.dst_family = AF_INET
            /\ a.dst_addr = (IF ValidIp(peer_ip) THEN peer_ip ELSE <<255, 255, 255, 255>>)
            /\ a.mask_family = AF_INET
            /\ a.mask_addr = <<255, 255, 255, 255>>
            /\ NameOf(a.rt_dev) = NameOf(ifr.ifr_name)
            /\ a.rt_flags = RTF_UP + RTF_STATIC
            /\ a.rt_metric = 0
            /\ a.rt_other = 0
            /\ i > 1 /\ ops[i - 1].op = "SIOCSIFFLAGS" /\ ops[i - 1].ok

\* A route request for peer 10.0.0.2 that the kernel accepted.
C15_Witness ==
    /\ peer_ip = <<10, 0, 0, 2>>
    /\ \E i \in Requests("SIOCADDRT") : ops[i].ok

\* C16 as claimed: the create/attach request carries IFF_TUN and IFF_NO_PI,
\* and not IFF_TAP.
C16_TunAndNoPi ==
    \A i \in Requests("TUNSETIFF") :
        /\ HasBit(ops[i].arg.w0, IFF_TUN)
        /\ HasBit(ops[i].arg.w0, IFF_NO_PI)
        /\ ~HasBit(ops[i].arg.w0, IFF_TAP)

\* C16 as the code has it: the create/attach request carries IFF_TUN and no
\* other flag: neither IFF_NO_PI nor IFF_TAP.
C16_TunOnly ==
    \A i \in Requests("TUNSETIFF") :
        /\ ops[i].arg.w0 = IFF_TUN
        /\ HasBit(ops[i].arg.w0, IFF_TUN)
        /\ ~HasBit(ops[i].arg.w0, IFF_NO_PI)
        /\ ~HasBit(ops[i].arg.w0, IFF_TAP)

\* A create/attach request the kernel accepted.
C16_Witness == pc = "open_control_channel" /\ Requests("TUNSETIFF") /= {}

\* The address a text stands for: its four numbers, or all-ones ("no
\* address") when it is not a dotted-decimal address.
Parsed(t) == IF ValidIp(t) THEN t ELSE <<255, 255, 255, 255>>

\* Request o was issued and the kernel refused it.
Refused(o) == \E i \in Requests(o) : ~ops[i].ok

\* Request o was issued and the kernel accepted it.
Accepted(o) == \E i \in Requests(o) : ops[i].ok

\* C17: tun_alloc never rejects an address itself.  The address, destination
\* and route requests carry the parsed text, all-ones for a text that does not
\* parse; each is issued as soon as the step before it has succeeded; and the
\* call fails at one of these steps only when the kernel refused the request.
C17_AddressesPassedThrough ==
    /\ \A i \in Requests("SIOCSIFADDR") : ops[i].arg.s_addr = Parsed(self_ip)
    /\ \A i \in Requests("SIOCSIFDSTADDR") : ops[i].arg.s_addr = Parsed(peer_ip)
    /\ \A i \in Requests("SIOCADDRT") : ops[i].arg.dst_addr = Parsed(peer_ip)
    /\ (Opened("socket") /= {} /\ pc /= "set_local_address") => Requests("SIOCSIFADDR") /= {}
    /\ (Accepted("SIOCSIFADDR") /\ pc /= "set_peer_address") => Requests("SIOCSIFDSTADDR") /= {}
    /\ (Accepted("SIOCSIFFLAGS") /\ pc /= "add_route") => Requests("SIOCADDRT") /= {}
    /\ (Returned /\ failed_step = "set_local_address") => Refused("SIOCSIFADDR")
    /\ (Returned /\ failed_step = "set_peer_address") => Refused("SIOCSIFDSTADDR")
    /\ (Returned /\ failed_step = "add_route") => Refused("SIOCADDRT")

\* Both texts fail to parse, and the address request went out with all-ones
\* and the destination request after it.
C17_Witness ==
    /\ ~ValidIp(self_ip) /\ ~ValidIp(peer_ip)
    /\ \E i \in Requests("SIOCSIFADDR") : ops[i].arg.s_addr = INADDR_NONE
    /\ \E i \in Requests("SIOCSIFDSTADDR") : ops[i].arg.s_addr = INADDR_NONE

\* The steps in the order of the code.
Rank ==
    [idle |-> 0, open_device |-> 1, request_interface |-> 2, open_control_channel |-> 4,
     set_local_address |-> 5, set_peer_address |-> 6, read_flags |-> 7, activate |-> 8,
     add_route |-> 9, finalize |-> 10, returned |-> 11]

\* C18: with every kernel call returning, an invocation always reaches its
\* return, and on the way it only moves forward through the steps: no step is
\* taken twice (the one move back is the caller starting a new invocation).
C18_TerminatesWithoutRevisit ==
    /\ [][pc' = "open_device" \/ Rank[pc'] > Rank[pc]]_vars
    /\ (pc \notin {"idle", "returned"}) ~> Returned

\* The second invocation has run through all its steps and returned.
C18_Witness == Returned /\ calls = 2 /\ Len(ops) = 9

\* The invocation has not got past REQUEST_INTERFACE.
BeforeCapture ==
    \/ pc \in {"open_device", "request_interface"}
    \/ Returned /\ failed_step \in {"open_device", "request_interface"}

\* C19: tun_alloc writes the caller's name buffer only in the step out of a
\* successful REQUEST_INTERFACE.  Until then, and when the call fails at
\* OPEN_DEVICE or REQUEST_INTERFACE, the buffer is as the caller passed it;
\* from then on, through every later step and return, it holds the assigned
\* name copied over what the caller passed.
C19_NameWrittenOnceAfterStep2 ==
    /\ [](calls > 0 /\ BeforeCapture => dev = arg_dev)
    /\ [](calls > 0 /\ ~BeforeCapture =>
            /\ dev = StrCpy(arg_dev, ifr.ifr_name)
            /\ NameOf(dev) \in DOMAIN kernel.ifaces \/ Returned)
    /\ [][pc \notin {"idle", "returned"} /\ dev' /= dev =>
            pc = "request_interface" /\ pc' = "open_control_channel"]_vars

\* The call failed at ADD_ROUTE and the caller's buffer, which named tun7,
\* holds the name the kernel assigned.
C19_Witness ==
    /\ Returned /\ failed_step = "add_route"
    /\ arg_dev[0] /= 0 /\ dev /= arg_dev

\* Kernel calls that take a descriptor without opening or closing one.
IsRequest(o) == o \notin {"open", "socket", "close"}

\* C20: within one invocation every close is issued on a descriptor that an
\* earlier open or socket call of this invocation returned, no descriptor is
\* closed twice, no control request is issued on a descriptor after its
\* close, and a call that fails at REQUEST_INTERFACE or OPEN_CONTROL_CHANNEL
\* closes the device handle only.
C20_ClosesOnlyOwnHandlesOnce ==
    /\ \A i \in DOMAIN ops :
          ops[i].op = "close" =>
              /\ ops[i].h >= 0
              /\ \E j \in 1..(i - 1) :
                    ops[j].op \in {"open", "socket"} /\ ops[j].ok /\ ops[j].h = ops[i].h
              /\ Cardinality(Closes(ops[i].h)) = 1
              /\ \A j \in DOMAIN ops :
                    j > i /\ IsRequest(ops[j].op) => ops[j].h /= ops[i].h
    /\ Returned /\ failed_step \in {"request_interface", "open_control_channel"} =>
          /\ Opened("socket") = {}
          /\ \A i \in DOMAIN ops : ops[i].op = "close" => ops[i].h \in Opened("open")

\* The socket call failed and the device handle was closed, once.
C20_Witness ==
    /\ Returned /\ failed_step = "open_control_channel"
    /\ Cardinality(Closes(fd)) = 1
    /\ Len(ops) = 4

====
